---- MODULE Spec2Model ----
(***************************************************************************)
(* Model of the ebook catalogue bot: the SQLite-backed store               *)
(* (src/database.py), the title normaliser (src/utils.py) and the update   *)
(* handlers that drive them (src/handlers.py, registered in src/bot.py).   *)
(*                                                                         *)
(* A Python str is modelled as a sequence of one-character strings, so     *)
(* that suffix tests, LIKE patterns and collation are computed character   *)
(* by character.                                                           *)
(***************************************************************************)
EXTENDS Integers, Sequences, FiniteSets, TLC

VARIABLES
    ebooks,    \* rows of table ebooks, in rowid order
    chat,      \* the transport: (chat_id, message_id) of the messages that exist
    nextMsg,   \* the transport: next message_id of each chat
    now,       \* CURRENT_TIMESTAMP, in seconds
    running,   \* frames of the handle_document coroutines in progress
    storage,   \* "failing" while the storage layer may raise sqlite3.Error
    last,      \* the step taken last and what it returned or replied
    advertisements,   \* rows of table advertisements, in id order
    system_messages,  \* rows of table system_messages, in rowid order
    context,   \* whether self.context of the MessageHandler is set
    tasks      \* the delete_message_later tasks created, in order of creation

vars == <<ebooks, chat, nextMsg, now, running, storage, last,
          advertisements, system_messages, context, tasks>>

(***************************************************************************)
(* Bounds of the model.                                                    *)
(***************************************************************************)
MaxUploads == 3    \* document messages the chats receive
MaxBooks == 23     \* rows of the stores the paging specification starts from
MaxAds == 2        \* rows of table advertisements
MaxPage == 12      \* page numbers put into the payload of a button

\* per_page of search_books and of format_search_results
PerPage == 10

ChatIds == {-1001}
FileIds == {"f1"}

FileNames ==
    { <<"a", "_", "b", ".", "P", "D", "F">>,     \* a_b.PDF
      <<"a", "!", "b", ".", "e", "p", "u", "b">>,\* a!b.epub
      <<"a", "b", ".", "d", "o", "c">>,          \* ab.doc
      <<>> }                                     \* a document without file name
\* context.args of /search: the words after the command
CommandArgs ==
    { <<>>, << <<"a", "_", "b">> >>, << <<"B">> >>, << <<"a">>, <<"b">> >> }
\* update.message.text of a text message
Texts ==
    { <<" ", "%">>, <<"/", " ", "a">> }

\* update.effective_user.id of the updates, and ADMIN_IDS of config.py
Users == {1, 2}
ADMIN_IDS == {1}

\* HELP_MESSAGE of config.py, cut down to a greeting and its @ mention
HELP_MESSAGE == <<"h", "i", " ", "@", "a">>

\* Python None
None == [none |-> TRUE]

Min(a, b) == IF a <= b THEN a ELSE b

(***************************************************************************)
(* Characters.                                                             *)
(***************************************************************************)
\* the characters of the model in code-point order (SQLite's BINARY collation)
Ascii ==
    <<" ", "!", "%", "-", ".", "1", "2", "A", "B", "D", "F", "P", "_",
      "a", "b", "c", "d", "e", "f", "i", "m", "o", "p", "t", "u", "x">>

Ord(c) == CHOOSE i \in 1..Len(Ascii) : Ascii[i] = c

\* str.lower, and the ASCII case folding of re.IGNORECASE and of LIKE
Lower(c) ==
    CASE c = "A" -> "a" [] c = "B" -> "b" [] c = "D" -> "d"
      [] c = "F" -> "f" [] c = "P" -> "p" [] OTHER -> c

LowerStr(s) == [i \in 1..Len(s) |-> Lower(s[i])]

\* \w of the re module
IsWordChar(c) ==
    c \in {"1", "2", "A", "B", "D", "F", "P", "_", "a", "b", "c", "d", "e",
           "f", "i", "m", "o", "p", "t", "u", "x"}

\* \s of the re module, and the separators of str.split()
IsSpace(c) == c \in {" ", "\t"}

EndsWith(s, suffix) ==
    /\ Len(s) >= Len(suffix)
    /\ SubSeq(s, Len(s) - Len(suffix) + 1, Len(s)) = suffix

(***************************************************************************)
(* utils.clean_title and the extension test of handle_document.            *)
(***************************************************************************)
supported_extensions ==
    { <<".", "p", "d", "f">>, <<".", "e", "p", "u", "b">>,
      <<".", "m", "o", "b", "i">>, <<".", "t", "x", "t">> }

\* is_ebook that takes every file name
is_ebook_any(file_name) == TRUE

is_ebook(file_name) ==
    \E ext \in supported_extensions : EndsWith(LowerStr(file_name), ext)

\* re.sub(r'\.(pdf|epub|mobi|txt)$', '', title, flags=re.IGNORECASE)
StripExtension(title) ==
    IF \E ext \in supported_extensions : EndsWith(LowerStr(title), ext)
    THEN LET ext == CHOOSE e \in supported_extensions : EndsWith(LowerStr(title), e)
         IN  SubSeq(title, 1, Len(title) - Len(ext))
    ELSE title

\* ReplaceSpecial that leaves the dots in place
ReplaceSpecial_keeping_dots(title) ==
    [i \in 1..Len(title) |->
        IF IsWordChar(title[i]) \/ IsSpace(title[i]) \/ title[i] \in {"-", "."}
        THEN title[i] ELSE " "]

\* re.sub(r'[^\w\s\-]', ' ', title)
ReplaceSpecial(title) ==
    [i \in 1..Len(title) |->
        IF IsWordChar(title[i]) \/ IsSpace(title[i]) \/ title[i] = "-"
        THEN title[i] ELSE " "]

\* ' '.join(title.split())
NormalizeWhitespace(title) ==
    LET F[i \in 0..Len(title)] ==
            IF i = 0 THEN <<>>
            ELSE IF IsSpace(title[i]) THEN F[i - 1]
            ELSE IF i > 1 /\ IsSpace(title[i - 1]) /\ F[i - 1] # <<>>
                 THEN F[i - 1] \o <<" ", title[i]>>
                 ELSE Append(F[i - 1], title[i])
    IN  F[Len(title)]

clean_title(title) == NormalizeWhitespace(ReplaceSpecial(StripExtension(title)))

(***************************************************************************)
(* The store: table ebooks of src/database.py.  A row is                   *)
(* [title, message_id, chat_id, file_id, added_date]; column id is read by  *)
(* no query and is kept as the position in the sequence, which is in rowid *)
(* order: AUTOINCREMENT makes that the order of insertion.                 *)
(***************************************************************************)
\* the tuple (title, message_id, chat_id, file_id) the SELECTs return
BookTuple(r) ==
    [title |-> r.title, message_id |-> r.message_id,
     chat_id |-> r.chat_id, file_id |-> r.file_id]

\* check_book_exists with a WHERE clause no row satisfies
check_book_exists_no_match(eb, title, fault) == None

\* title = ? LIMIT 1: the index on title yields equal titles in rowid order.
\* A sqlite3.Error is caught and None returned.
check_book_exists(eb, title, fault) ==
    IF fault THEN None
    ELSE LET hits == {i \in DOMAIN eb : eb[i].title = title}
         IN  IF hits = {} THEN None
             ELSE BookTuple(eb[CHOOSE i \in hits : \A j \in hits : i <= j])

\* INSERT INTO ebooks (title, message_id, chat_id, file_id); added_date
\* takes its default, CURRENT_TIMESTAMP.
InsertBook(eb, title, message_id, chat_id, file_id, date) ==
    Append(eb, [title |-> title, message_id |-> message_id,
                chat_id |-> chat_id, file_id |-> file_id, added_date |-> date])

\* check_message_exists asking the transport for the message
check_message_exists_in_chat(eb, chat_id, message_id, fault) ==
    IF fault THEN FALSE ELSE <<chat_id, message_id>> \in chat

\* check_message_exists with count > 1 for count > 0
check_message_exists_more_than_one(eb, chat_id, message_id, fault) ==
    IF fault THEN FALSE
    ELSE Cardinality({i \in DOMAIN eb :
                        eb[i].chat_id = chat_id /\ eb[i].message_id = message_id}) > 1

\* SELECT COUNT(*) FROM ebooks WHERE chat_id = ? AND message_id = ?
check_message_exists(eb, chat_id, message_id, fault) ==
    IF fault THEN FALSE
    ELSE Cardinality({i \in DOMAIN eb :
                        eb[i].chat_id = chat_id /\ eb[i].message_id = message_id}) > 0

RowAt(chat_id, message_id, r) == r.chat_id = chat_id /\ r.message_id = message_id

\* DELETE FROM ebooks WHERE chat_id = ? AND message_id = ?
remove_deleted_messages(eb, chat_id, message_id, fault) ==
    IF fault THEN eb
    ELSE SelectSeq(eb, LAMBDA r : ~RowAt(chat_id, message_id, r))

(***************************************************************************)
(* Database.search_books.                                                  *)
(***************************************************************************)
\* text LIKE pattern: % matches any run, _ any one character, letters
\* compare without case
RECURSIVE LikeMatch(_, _)
LikeMatch(pattern, text) ==
    IF pattern = <<>> THEN text = <<>>
    ELSE IF pattern[1] = "%"
         THEN LikeMatch(Tail(pattern), text)
              \/ (text # <<>> /\ LikeMatch(pattern, Tail(text)))
    ELSE IF text = <<>> THEN FALSE
    ELSE IF pattern[1] = "_" THEN LikeMatch(Tail(pattern), Tail(text))
    ELSE Lower(pattern[1]) = Lower(text[1]) /\ LikeMatch(Tail(pattern), Tail(text))

\* search_query = f"%{query}%"
SearchPattern(query) == <<"%">> \o query \o <<"%">>

\* WHERE e.title LIKE ?
Matching(eb, query) ==
    {i \in DOMAIN eb : LikeMatch(SearchPattern(query), eb[i].title)}

\* RankedFirst with ORDER BY added_date ASC in the window
RankedFirst_oldest(eb, query) ==
    LET m == Matching(eb, query)
    IN  {i \in m : \A j \in m :
            eb[j].title = eb[i].title =>
                \/ eb[j].added_date > eb[i].added_date
                \/ eb[j].added_date = eb[i].added_date /\ i <= j}

\* ROW_NUMBER() OVER (PARTITION BY title ORDER BY added_date DESC) = 1;
\* rows of one title and one added_date keep their rowid order
RankedFirst(eb, query) ==
    LET m == Matching(eb, query)
    IN  {i \in m : \A j \in m :
            eb[j].title = eb[i].title =>
                \/ eb[j].added_date < eb[i].added_date
                \/ eb[j].added_date = eb[i].added_date /\ i <= j}

\* BINARY collation of two titles
RECURSIVE TitleLess(_, _)
TitleLess(s, t) ==
    IF s = <<>> THEN t # <<>>
    ELSE IF t = <<>> THEN FALSE
    ELSE IF s[1] = t[1] THEN TitleLess(Tail(s), Tail(t))
    ELSE Ord(s[1]) < Ord(t[1])

\* ORDER BY added_date DESC over the partitions, which come sorted by title
Precedes(a, b) ==
    \/ a.added_date > b.added_date
    \/ a.added_date = b.added_date /\ TitleLess(a.title, b.title)

\* a row put at its place in a sequence in the order of the outer ORDER BY
RECURSIVE InsertRow(_, _)
InsertRow(r, rows) ==
    IF rows = <<>> THEN <<r>>
    ELSE IF Precedes(r, rows[1]) THEN <<r>> \o rows
    ELSE <<rows[1]>> \o InsertRow(r, Tail(rows))

RECURSIVE SortRows(_, _)
SortRows(eb, S) ==
    IF S = {} THEN <<>>
    ELSE LET i == CHOOSE j \in S : TRUE
         IN  InsertRow(eb[i], SortRows(eb, S \ {i}))

\* the rows with rn = 1 in the order of the outer ORDER BY
Candidates(eb, query) == SortRows(eb, RankedFirst(eb, query))

\* PageRows with OFFSET page * per_page
PageRows_offset_by_page(eb, query, page, per_page) ==
    LET c == Candidates(eb, query)
        offset == page * per_page
    IN  SubSeq(c, offset + 1, Min(offset + per_page, Len(c)))

\* LIMIT per_page OFFSET (page - 1) * per_page
PageRows(eb, query, page, per_page) ==
    LET c == Candidates(eb, query)
        offset == (page - 1) * per_page
    IN  SubSeq(c, offset + 1, Min(offset + per_page, Len(c)))

\* the loop over filtered_results: keep the rows whose message is found,
\* delete the others and count them off.  cf and rf are the positions at
\* which check_message_exists and remove_deleted_messages raise.
RECURSIVE FilterDeleted(_, _, _, _, _, _, _)
FilterDeleted(eb, results, k, valid, count, cf, rf) ==
    IF k > Len(results)
    THEN [ebooks |-> eb, books |-> valid, total_count |-> count]
    ELSE LET r == results[k]
         IN  IF check_message_exists(eb, r.chat_id, r.message_id, k \in cf)
             THEN FilterDeleted(eb, results, k + 1, Append(valid, BookTuple(r)),
                                count, cf, rf)
             ELSE FilterDeleted(
                      remove_deleted_messages(eb, r.chat_id, r.message_id, k \in rf),
                      results, k + 1, valid, count - 1, cf, rf)

\* the rows the SELECT returns for the page, and the total_count column
SelectPage(eb, query, page, per_page) ==
    [results |-> PageRows(eb, query, page, per_page),
     total_count |-> Cardinality(RankedFirst(eb, query))]

\* search_books that reports the count of the query for an empty page
SearchFrom_counting(eb, selected, sf, cf, rf) ==
    IF sf \/ selected.results = <<>>
    THEN [ebooks |-> eb, books |-> <<>>, total_count |-> selected.total_count]
    ELSE FilterDeleted(eb, selected.results, 1, <<>>, selected.total_count, cf, rf)

\* what search_books does with the rows selected
SearchFrom(eb, selected, sf, cf, rf) ==
    IF sf \/ selected.results = <<>>
    THEN [ebooks |-> eb, books |-> <<>>, total_count |-> 0]
    ELSE FilterDeleted(eb, selected.results, 1, <<>>, selected.total_count, cf, rf)

\* search_books(query, page, per_page): the store afterwards, the list and
\* the count returned.  sf: the SELECT raises.
search_books(eb, query, page, per_page, sf, cf, rf) ==
    SearchFrom(eb, SelectPage(eb, query, page, per_page), sf, cf, rf)

(***************************************************************************)
(* The reply to a search: format_search_results and the keyboard, and the  *)
(* payload of its buttons as handle_pagination reads it back.              *)
(***************************************************************************)
Digits == <<"0", "1", "2", "3", "4", "5", "6", "7", "8", "9">>

\* str(n), as the f-strings format an int
RECURSIVE Str(_)
Str(n) ==
    IF n < 0 THEN <<"-">> \o Str(-n)
    ELSE IF n < 10 THEN <<Digits[n + 1]>>
    ELSE Str(n \div 10) \o <<Digits[(n % 10) + 1]>>

IsDigit(c) == \E i \in 1..Len(Digits) : Digits[i] = c

DigitValue(c) == (CHOOSE i \in 1..Len(Digits) : Digits[i] = c) - 1

RECURSIVE DigitsValue(_, _)
DigitsValue(s, acc) ==
    IF s = <<>> THEN acc
    ELSE DigitsValue(Tail(s), acc * 10 + DigitValue(s[1]))

\* int(s) for a string without whitespace or digit separators: an optional
\* sign and decimal digits give the value, anything else raises ValueError
ParseInt(s) ==
    LET signed == s # <<>> /\ s[1] \in {"-", "+"}
        body == IF signed THEN Tail(s) ELSE s
    IN  IF body = <<>> \/ \E i \in 1..Len(body) : ~IsDigit(body[i])
        THEN [raised |-> TRUE, value |-> 0]
        ELSE [raised |-> FALSE,
              value |-> IF signed /\ s[1] = "-" THEN -DigitsValue(body, 0)
                        ELSE DigitsValue(body, 0)]

\* str.split('_', maxsplit): cut at the first maxsplit underscores
RECURSIVE Split(_, _)
Split(s, maxsplit) ==
    IF maxsplit = 0 \/ \A i \in 1..Len(s) : s[i] # "_" THEN <<s>>
    ELSE LET k == CHOOSE i \in 1..Len(s) :
                    s[i] = "_" /\ \A j \in 1..(i - 1) : s[j] # "_"
         IN  <<SubSeq(s, 1, k - 1)>> \o Split(SubSeq(s, k + 1, Len(s)), maxsplit - 1)

\* f"page_{page}_{query}"
CallbackData(page, query) ==
    <<"p", "a", "g", "e", "_">> \o Str(page) \o <<"_">> \o query

Noop == <<"n", "o", "o", "p">>

\* DecodeCallback with split('_'), which cuts at every underscore
DecodeCallback_split_all(data) ==
    LET parts == Split(data, Len(data))
    IN  IF Len(parts) # 3 \/ ParseInt(parts[2]).raised
        THEN [raised |-> TRUE, page |-> 0, search_query |-> <<>>]
        ELSE [raised |-> FALSE, page |-> ParseInt(parts[2]).value,
              search_query |-> parts[3]]

\* _, page, search_query = query.data.split('_', 2); page = int(page);
\* raised: the unpacking or int() raises ValueError
DecodeCallback(data) ==
    LET parts == Split(data, 2)
    IN  IF Len(parts) # 3 \/ ParseInt(parts[2]).raised
        THEN [raised |-> TRUE, page |-> 0, search_query |-> <<>>]
        ELSE [raised |-> FALSE, page |-> ParseInt(parts[2]).value,
              search_query |-> parts[3]]

\* create_pagination_keyboard with the next-page test current_page <= total_pages
create_pagination_keyboard_next_on_last(current_page, total_pages, query, ads) ==
    << (IF current_page > 1
        THEN <<[kind |-> "previous",
                callback_data |-> CallbackData(current_page - 1, query)]>>
        ELSE <<>>)
       \o <<[kind |-> "indicator", current_page |-> current_page,
             total_pages |-> total_pages, callback_data |-> Noop]>>
       \o (IF current_page <= total_pages
           THEN <<[kind |-> "next",
                   callback_data |-> CallbackData(current_page + 1, query)]>>
           ELSE <<>>) >>
    \o [i \in 1..Len(ads) |->
            <<[kind |-> "advertisement", text |-> ads[i][1], url |-> ads[i][2]]>>]

\* create_pagination_keyboard: the rows of buttons, the pagination row first,
\* then one row per advertisement
create_pagination_keyboard(current_page, total_pages, query, ads) ==
    << (IF current_page > 1
        THEN <<[kind |-> "previous",
                callback_data |-> CallbackData(current_page - 1, query)]>>
        ELSE <<>>)
       \o <<[kind |-> "indicator", current_page |-> current_page,
             total_pages |-> total_pages, callback_data |-> Noop]>>
       \o (IF current_page < total_pages
           THEN <<[kind |-> "next",
                   callback_data |-> CallbackData(current_page + 1, query)]>>
           ELSE <<>>) >>
    \o [i \in 1..Len(ads) |->
            <<[kind |-> "advertisement", text |-> ads[i][1], url |-> ads[i][2]]>>]

\* per_page of format_search_results
FormatPerPage == 10

\* format_search_results: the text (the count announced and the numbered
\* entries) and the keyboard, or the no-results message and no keyboard
format_search_results(books, total_count, current_page, query, ads) ==
    IF books = <<>>
    THEN [text |-> "not_found", reply_markup |-> None]
    ELSE LET total_pages == (total_count + FormatPerPage - 1) \div FormatPerPage
         IN  [text |-> [found |-> total_count,
                        entries |-> [i \in 1..Len(books) |->
                            [number |-> (current_page - 1) * FormatPerPage + i,
                             book |-> books[i]]]],
              reply_markup |-> create_pagination_keyboard(current_page, total_pages,
                                                          query, ads)]

(***************************************************************************)
(* The advertisements and the help message.  A row of advertisements is    *)
(* [id, text, url, is_active]; AUTOINCREMENT never hands out an id twice.  *)
(* Every operation catches sqlite3.Error: fault says that the statement    *)
(* raises.  An operation yields the table afterwards and what it returns.  *)
(***************************************************************************)
\* the greatest id the table holds, 0 for none
LastAdId(ads) ==
    IF ads = <<>> THEN 0
    ELSE CHOOSE n \in {ads[i].id : i \in DOMAIN ads} :
            \A i \in DOMAIN ads : ads[i].id <= n

\* INSERT INTO advertisements (text, url): is_active defaults to 1
add_advertisement(ads, text, url, fault) ==
    IF fault THEN [ads |-> ads, result |-> FALSE]
    ELSE [ads |-> Append(ads, [id |-> LastAdId(ads) + 1, text |-> text,
                               url |-> url, is_active |-> TRUE]),
          result |-> TRUE]

\* remove_advertisement that deletes the row
remove_advertisement_hard(ads, ad_id, fault) ==
    IF fault THEN [ads |-> ads, result |-> FALSE]
    ELSE [ads |-> SelectSeq(ads, LAMBDA r : r.id # ad_id),
          result |-> \E i \in DOMAIN ads : ads[i].id = ad_id]

\* UPDATE advertisements SET is_active = 0 WHERE id = ?; rowcount counts the
\* rows the WHERE clause selects, also those already inactive
remove_advertisement(ads, ad_id, fault) ==
    IF fault THEN [ads |-> ads, result |-> FALSE]
    ELSE [ads |-> [i \in DOMAIN ads |->
                      IF ads[i].id = ad_id THEN [ads[i] EXCEPT !.is_active = FALSE]
                      ELSE ads[i]],
          result |-> \E i \in DOMAIN ads : ads[i].id = ad_id]

\* edit_advertisement without the is_active test, switching the row on
edit_advertisement_reactivating(ads, ad_id, text, url, fault) ==
    IF fault THEN [ads |-> ads, result |-> FALSE]
    ELSE [ads |-> [i \in DOMAIN ads |->
                      IF ads[i].id = ad_id
                      THEN [ads[i] EXCEPT !.text = text, !.url = url,
                                          !.is_active = TRUE]
                      ELSE ads[i]],
          result |-> \E i \in DOMAIN ads : ads[i].id = ad_id]

\* UPDATE advertisements SET text = ?, url = ? WHERE id = ? AND is_active = 1
edit_advertisement(ads, ad_id, text, url, fault) ==
    IF fault THEN [ads |-> ads, result |-> FALSE]
    ELSE [ads |-> [i \in DOMAIN ads |->
                      IF ads[i].id = ad_id /\ ads[i].is_active
                      THEN [ads[i] EXCEPT !.text = text, !.url = url]
                      ELSE ads[i]],
          result |-> \E i \in DOMAIN ads : ads[i].id = ad_id /\ ads[i].is_active]

\* get_advertisement without the is_active test
get_advertisement_any(ads, ad_id, fault) ==
    IF fault \/ ~\E i \in DOMAIN ads : ads[i].id = ad_id
    THEN None
    ELSE LET r == ads[CHOOSE i \in DOMAIN ads : ads[i].id = ad_id]
         IN  <<r.id, r.text, r.url>>

\* SELECT id, text, url ... WHERE id = ? AND is_active = 1
get_advertisement(ads, ad_id, fault) ==
    IF fault \/ ~\E i \in DOMAIN ads : ads[i].id = ad_id /\ ads[i].is_active
    THEN None
    ELSE LET r == ads[CHOOSE i \in DOMAIN ads : ads[i].id = ad_id]
         IN  <<r.id, r.text, r.url>>

\* SELECT id, text, url ... WHERE is_active = 1 ORDER BY id
list_advertisements(ads, fault) ==
    IF fault THEN <<>>
    ELSE LET active == SelectSeq(ads, LAMBDA r : r.is_active)
         IN  [i \in 1..Len(active) |-> <<active[i].id, active[i].text, active[i].url>>]

\* LIMIT of get_active_advertisements
ActiveLimit == 5

\* get_active_advertisements without its LIMIT
get_active_advertisements_unlimited(ads, fault) ==
    IF fault THEN {<<>>}
    ELSE LET active == {i \in DOMAIN ads : ads[i].is_active}
             n == Cardinality(active)
         IN  {[k \in 1..n |-> <<ads[f[k]].text, ads[f[k]].url>>] :
                f \in {g \in [1..n -> active] :
                         \A x, y \in 1..n : x # y => g[x] # g[y]}}

\* SELECT text, url ... WHERE is_active = 1 ORDER BY RANDOM() LIMIT 5: the
\* lists it may return, any ActiveLimit of the active rows in any order
get_active_advertisements(ads, fault) ==
    IF fault THEN {<<>>}
    ELSE LET active == {i \in DOMAIN ads : ads[i].is_active}
             n == Min(ActiveLimit, Cardinality(active))
         IN  {[k \in 1..n |-> <<ads[f[k]].text, ads[f[k]].url>>] :
                f \in {g \in [1..n -> active] :
                         \A x, y \in 1..n : x # y => g[x] # g[y]}}

\* process_username_links: its second pattern has the look-behind
\* (?<!https?://), of variable width, which re refuses to compile, so the
\* call raises re.error whatever the text
process_username_links(text) == [raised |-> TRUE, text |-> text]

\* INSERT OR REPLACE with a plain INSERT in its place
InsertOrReplace_append(rows, type, content) ==
    Append(rows, [type |-> type, content |-> content])

\* INSERT OR REPLACE INTO system_messages (type, content): column type is
\* UNIQUE, so the row of that type, if any, is deleted and the new row is
\* inserted with a new rowid
InsertOrReplace(rows, type, content) ==
    Append(SelectSeq(rows, LAMBDA r : r.type # type),
           [type |-> type, content |-> content])

\* init_db that leaves a help row it finds (INSERT OR IGNORE)
init_db_keeping(eb, ads, rows, fault) ==
    [ebooks |-> eb, advertisements |-> ads,
     system_messages |-> IF fault \/ \E i \in DOMAIN rows : rows[i].type = "help"
                         THEN rows
                         ELSE InsertOrReplace(rows, "help", HELP_MESSAGE),
     raised |-> fault]

\* init_db: CREATE TABLE IF NOT EXISTS keeps the tables it finds, then the
\* help row is written with HELP_MESSAGE.  sqlite3.Error is logged and
\* raised again: raised says that the call ends in an exception.
init_db(eb, ads, rows, fault) ==
    [ebooks |-> eb, advertisements |-> ads,
     system_messages |-> IF fault THEN rows
                         ELSE InsertOrReplace(rows, "help", HELP_MESSAGE),
     raised |-> fault]

\* SELECT content FROM system_messages WHERE type = 'help', fetchone();
\* HELP_MESSAGE when there is no such row or the SELECT raises
get_help_message(rows, fault) ==
    LET help == SelectSeq(rows, LAMBDA r : r.type = "help")
    IN  IF fault \/ help = <<>> THEN HELP_MESSAGE ELSE help[1].content

\* update_help_message: process_username_links, then INSERT OR REPLACE of
\* the row of type 'help'.  Only sqlite3.Error is caught: raised says that
\* the call ends in another exception.
update_help_message(rows, new_message, fault) ==
    LET processed_message == process_username_links(new_message)
    IN  IF processed_message.raised
        THEN [system_messages |-> rows, result |-> FALSE, raised |-> TRUE]
        ELSE IF fault
        THEN [system_messages |-> rows, result |-> FALSE, raised |-> FALSE]
        ELSE [system_messages |-> InsertOrReplace(rows, "help", processed_message.text),
              result |-> TRUE, raised |-> FALSE]

(***************************************************************************)
(* Scheduling.  bot.py builds the Application without concurrent updates   *)
(* and registers the handlers with block=True: an update is handled to the *)
(* end before the next one is taken.                                       *)
(***************************************************************************)
\* the dispatch of an Application built with concurrent updates
CanDispatch_concurrent(frames) == Len(frames) < 2

CanDispatch(frames) == frames = <<>>

\* whether a store call raises sqlite3.Error
FaultFlags == IF storage = "failing" THEN {FALSE, TRUE} ELSE {FALSE}

\* the calls of a loop that raise
FaultSets(positions) == IF storage = "failing" THEN SUBSET positions ELSE {{}}

RemoveAt(seq, i) == [k \in 1..(Len(seq) - 1) |-> IF k < i THEN seq[k] ELSE seq[k + 1]]

\* frame i moves on to pc; f: the store call it made raised
Advance(i, pc, f) ==
    [running EXCEPT ![i].pc = pc, ![i].faulted = running[i].faulted \/ f]

\* the messages the chats have received so far
Uploaded == {m \in ChatIds \X (1..MaxUploads) : m[2] < nextMsg[m[1]]}

\* the pages a button may ask for: those a keyboard of this store offers,
\* and one beyond for a keyboard sent before rows were removed
PageNumbers(eb) == 1..((Len(eb) + PerPage - 1) \div PerPage + 1)

Init ==
    /\ ebooks = <<>>
    /\ chat = {}
    /\ nextMsg = [c \in ChatIds |-> 1]
    /\ now = 1
    /\ running = <<>>
    /\ storage = "failing"
    /\ last = [op |-> "init"]
    /\ advertisements = <<>>
    /\ system_messages = init_db(<<>>, <<>>, <<>>, FALSE).system_messages
    /\ context = FALSE
    /\ tasks = <<>>

(***************************************************************************)
(* handle_document, one action per store call it makes.                    *)
(***************************************************************************)
\* A document message arrives in a chat and handle_document starts on it:
\* the checks of the file name, then clean_title.
HandleDocument(file_name, chat_id, file_id) ==
    /\ CanDispatch(running)
    /\ Cardinality(Uploaded) < MaxUploads
    /\ chat' = chat \cup {<<chat_id, nextMsg[chat_id]>>}
    /\ nextMsg' = [nextMsg EXCEPT ![chat_id] = @ + 1]
    /\ IF file_name = <<>>
       THEN /\ running' = running
            /\ last' = [op |-> "handle_document", outcome |-> "no_file_name"]
       ELSE IF ~is_ebook(file_name)
       THEN /\ running' = running
            /\ last' = [op |-> "handle_document", outcome |-> "unsupported"]
       ELSE /\ running' = Append(running,
                    [pc |-> "lookup", file_name |-> file_name,
                     title |-> clean_title(file_name),
                     message_id |-> nextMsg[chat_id], chat_id |-> chat_id,
                     file_id |-> file_id, existing |-> None, faulted |-> FALSE])
            /\ last' = [op |-> "handle_document", outcome |-> "started"]
    /\ UNCHANGED <<ebooks, now, storage, context, tasks, advertisements, system_messages>>

\* existing_book = self.db.check_book_exists(title)
CheckExisting(i) ==
    /\ running[i].pc = "lookup"
    /\ \E f \in FaultFlags :
        LET existing == check_book_exists(ebooks, running[i].title, f)
        IN  /\ running' = [running EXCEPT
                    ![i].pc = IF existing = None THEN "add_check" ELSE "probe",
                    ![i].existing = existing,
                    ![i].faulted = f]
            /\ last' = [op |-> "check_book_exists", title |-> running[i].title,
                        result |-> existing, fault |-> f]
    /\ UNCHANGED <<ebooks, chat, nextMsg, now, storage, context, tasks, advertisements, system_messages>>

\* check_message_exists on the existing book; when it answers True the
\* duplicate warning is sent and the handler returns
CheckMessage(i) ==
    /\ running[i].pc = "probe"
    /\ \E f \in FaultFlags :
        LET e == running[i].existing
            found == check_message_exists(ebooks, e.chat_id, e.message_id, f)
        IN  /\ running' = IF found THEN RemoveAt(running, i)
                                   ELSE Advance(i, "reclaim", f)
            /\ last' = [op |-> "check_message_exists", chat_id |-> e.chat_id,
                        message_id |-> e.message_id, result |-> found, fault |-> f,
                        outcome |-> IF found THEN "duplicate" ELSE "stale",
                        title |-> running[i].title, existing |-> e,
                        faulted |-> running[i].faulted \/ f]
    /\ UNCHANGED <<ebooks, chat, nextMsg, now, storage, context, tasks, advertisements, system_messages>>

\* the existing message is taken for deleted: remove_deleted_messages
RemoveStale(i) ==
    /\ running[i].pc = "reclaim"
    /\ \E f \in FaultFlags :
        LET e == running[i].existing
        IN  /\ ebooks' = remove_deleted_messages(ebooks, e.chat_id, e.message_id, f)
            /\ last' = [op |-> "remove_deleted_messages", chat_id |-> e.chat_id,
                        message_id |-> e.message_id, fault |-> f]
            /\ running' = Advance(i, "add_check", f)
    /\ UNCHANGED <<chat, nextMsg, now, storage, context, tasks, advertisements, system_messages>>

\* add_book, its existence check: when it finds the title add_book returns
\* False and the handler replies that saving failed
AddBookCheck(i) ==
    /\ running[i].pc = "add_check"
    /\ \E f \in FaultFlags :
        LET existing_book == check_book_exists(ebooks, running[i].title, f)
        IN  /\ running' = IF existing_book = None THEN Advance(i, "add_insert", f)
                          ELSE RemoveAt(running, i)
            /\ last' = [op |-> "add_book_check", title |-> running[i].title,
                        message_id |-> running[i].message_id,
                        chat_id |-> running[i].chat_id,
                        existing |-> existing_book, fault |-> f,
                        faulted |-> running[i].faulted \/ f,
                        result |-> IF existing_book = None THEN None ELSE FALSE,
                        outcome |-> IF existing_book = None THEN "checked" ELSE "failure"]
    /\ UNCHANGED <<ebooks, chat, nextMsg, now, storage, context, tasks, advertisements, system_messages>>

\* add_book, its INSERT, and the reply of the handler
AddBookInsert(i) ==
    /\ running[i].pc = "add_insert"
    /\ \E f \in FaultFlags :
        LET r == running[i]
        IN  /\ ebooks' = IF f THEN ebooks
                         ELSE InsertBook(ebooks, r.title, r.message_id, r.chat_id,
                                         r.file_id, now)
            /\ last' = [op |-> "add_book_insert", title |-> r.title,
                        message_id |-> r.message_id, chat_id |-> r.chat_id,
                        fault |-> f, faulted |-> r.faulted \/ f, result |-> ~f,
                        outcome |-> IF f THEN "failure" ELSE "success"]
    /\ running' = RemoveAt(running, i)
    /\ UNCHANGED <<chat, nextMsg, now, storage, context, tasks, advertisements, system_messages>>

(***************************************************************************)
(* The searches: search_command and handle_text ask for page 1,            *)
(* handle_pagination for the page of the button clicked.                   *)
(***************************************************************************)
\* the ways the store calls of one search may raise: the SELECT (sf), and
\* after a SELECT that went through the calls of the loop (cf, rf)
SearchFaults(selected) ==
    {<<sf, cf, rf>> \in FaultFlags \X FaultSets(1..Len(selected.results))
                                  \X FaultSets(1..Len(selected.results)) :
        /\ rf \subseteq cf
        /\ ~sf \/ cf = {}}

RunSearch(query, page) ==
    LET selected == SelectPage(ebooks, query, page, PerPage)
    IN  /\ ebooks' \in {SearchFrom(ebooks, selected, x[1], x[2], x[3]).ebooks :
                            x \in SearchFaults(selected)}
        /\ \E f \in FaultFlags :
             \E shown \in get_active_advertisements(advertisements, f) :
                last' = [op |-> "search_books", advertisements |-> shown]

\* ' '.join(context.args)
RECURSIVE JoinArgs(_)
JoinArgs(args) ==
    IF args = <<>> THEN <<>>
    ELSE IF Len(args) = 1 THEN args[1]
    ELSE args[1] \o <<" ">> \o JoinArgs(Tail(args))

\* str.strip()
RECURSIVE Strip(_)
Strip(text) ==
    IF text = <<>> THEN <<>>
    ELSE IF IsSpace(text[1]) THEN Strip(Tail(text))
    ELSE IF IsSpace(text[Len(text)]) THEN Strip(SubSeq(text, 1, Len(text) - 1))
    ELSE text

\* the query texts the handlers have searched for: those a page button carries
ButtonQueries ==
    {JoinArgs(args) : args \in CommandArgs \ {<<>>}}
    \cup {Strip(t) : t \in {x \in Texts : Strip(x) # <<>> /\ Strip(x)[1] # "/"}}

\* /search <words>: without words only the usage hint is sent
SearchCommand(args) ==
    /\ CanDispatch(running)
    /\ LET query == JoinArgs(args)
       IN  IF query = <<>>
           THEN /\ last' = [op |-> "search_command", outcome |-> "usage"]
                /\ UNCHANGED ebooks
           ELSE RunSearch(query, 1)
    /\ UNCHANGED <<chat, nextMsg, now, running, storage, context, tasks, advertisements, system_messages>>

\* a text message that is no command; an empty text or one that starts
\* with / is passed over
HandleText(text) ==
    /\ CanDispatch(running)
    /\ LET query == Strip(text)
       IN  IF query = <<>> \/ query[1] = "/"
           THEN /\ last' = [op |-> "handle_text", outcome |-> "ignored"]
                /\ UNCHANGED ebooks
           ELSE RunSearch(query, 1)
    /\ UNCHANGED <<chat, nextMsg, now, running, storage, context, tasks, advertisements, system_messages>>

\* a click on a page button, carrying page_<page>_<query>
HandlePagination(query, page) ==
    /\ CanDispatch(running)
    /\ RunSearch(query, page)
    /\ UNCHANGED <<chat, nextMsg, now, running, storage, context, tasks, advertisements, system_messages>>

(***************************************************************************)
(* The environment: the clock, and users deleting messages in the chats.   *)
(* The clock is read only by the INSERT, for added_date: a second in which *)
(* no row was inserted cannot be told from the one before, so the clock    *)
(* moves on once a row carries the current second.                         *)
(***************************************************************************)
Tick ==
    /\ \E i \in DOMAIN ebooks : ebooks[i].added_date = now
    /\ now' = now + 1
    /\ last' = [op |-> "tick"]
    /\ UNCHANGED <<ebooks, chat, nextMsg, running, storage, context, tasks, advertisements, system_messages>>

DeleteMessage(m) ==
    /\ m \in chat
    /\ chat' = chat \ {m}
    /\ last' = [op |-> "delete_message"]
    /\ UNCHANGED <<ebooks, nextMsg, now, running, storage, context, tasks, advertisements, system_messages>>

(***************************************************************************)
(* The admin commands.                                                     *)
(***************************************************************************)
\* is_admin that lets every user through
is_admin_everyone(user_id) == TRUE

is_admin(user_id) == user_id \in ADMIN_IDS

\* context.args of /addad, /editad and /removead
AddArgs == { <<>>, << <<"t">> >>, << <<"t">>, <<"u">> >> }

EditArgs ==
    { << Str(1), <<"v">> >>, << <<"x">>, <<"v">>, <<"w">> >> }
    \cup { << Str(i), <<"v">>, <<"w">> >> : i \in 1..MaxAds }

RemoveArgs == { <<>>, << <<"x">> >> } \cup { << Str(i) >> : i \in 1..MaxAds }

\* update.message.text of /sethelp
HelpTexts ==
    { <<"/", "s", "e", "t", "h", "e", "l", "p">>,
      <<"/", "s", "e", "t", "h", "e", "l", "p", " ", "n">>,
      <<"/", "s", "e", "t", "h", "e", "l", "p", " ", "@", ":", "b">> }

\* the variables no admin command touches
catalogue == <<ebooks, chat, nextMsg, now, running, storage, context, tasks>>

\* add_advertisement_command
AddAdvertisementCommand(user, args) ==
    /\ CanDispatch(running)
    /\ IF ~is_admin(user)
       THEN /\ last' = [op |-> "addad", user |-> user, outcome |-> "not_admin"]
            /\ UNCHANGED advertisements
       ELSE IF Len(args) < 2
       THEN /\ last' = [op |-> "addad", user |-> user, outcome |-> "usage"]
            /\ UNCHANGED advertisements
       ELSE /\ Len(advertisements) < MaxAds
            /\ \E f \in FaultFlags :
                LET r == add_advertisement(advertisements,
                                           JoinArgs(SubSeq(args, 1, Len(args) - 1)),
                                           args[Len(args)], f)
                IN  /\ advertisements' = r.ads
                    /\ last' = [op |-> "addad", user |-> user, fault |-> f,
                                outcome |-> IF r.result THEN "added" ELSE "failure"]
    /\ UNCHANGED <<catalogue, system_messages>>

\* remove_advertisement_command
RemoveAdvertisementCommand(user, args) ==
    /\ CanDispatch(running)
    /\ IF ~is_admin(user)
       THEN /\ last' = [op |-> "removead", user |-> user, outcome |-> "not_admin"]
            /\ UNCHANGED advertisements
       ELSE IF args = <<>>
       THEN /\ last' = [op |-> "removead", user |-> user, outcome |-> "usage"]
            /\ UNCHANGED advertisements
       ELSE IF ParseInt(args[1]).raised
       THEN /\ last' = [op |-> "removead", user |-> user, outcome |-> "invalid_id"]
            /\ UNCHANGED advertisements
       ELSE \E f \in FaultFlags :
                LET ad_id == ParseInt(args[1]).value
                    r == remove_advertisement(advertisements, ad_id, f)
                IN  /\ advertisements' = r.ads
                    /\ last' = [op |-> "removead", user |-> user, fault |-> f,
                                ad_id |-> ad_id, result |-> r.result,
                                outcome |-> IF r.result THEN "removed" ELSE "not_found"]
    /\ UNCHANGED <<catalogue, system_messages>>

\* list_advertisements_command
ListAdvertisementsCommand(user) ==
    /\ CanDispatch(running)
    /\ IF ~is_admin(user)
       THEN last' = [op |-> "listad", user |-> user, outcome |-> "not_admin"]
       ELSE \E f \in FaultFlags :
                LET ads == list_advertisements(advertisements, f)
                IN  last' = [op |-> "listad", user |-> user, fault |-> f, ads |-> ads,
                             outcome |-> IF ads = <<>> THEN "empty" ELSE "listed"]
    /\ UNCHANGED <<catalogue, advertisements, system_messages>>

\* edit_advertisement_command
EditAdvertisementCommand(user, args) ==
    /\ CanDispatch(running)
    /\ IF ~is_admin(user)
       THEN /\ last' = [op |-> "editad", user |-> user, outcome |-> "not_admin"]
            /\ UNCHANGED advertisements
       ELSE IF Len(args) < 3
       THEN /\ last' = [op |-> "editad", user |-> user, outcome |-> "usage"]
            /\ UNCHANGED advertisements
       ELSE IF ParseInt(args[1]).raised
       THEN /\ last' = [op |-> "editad", user |-> user, outcome |-> "invalid_id"]
            /\ UNCHANGED advertisements
       ELSE \E gf, ef \in FaultFlags :
                LET ad_id == ParseInt(args[1]).value
                    url == args[Len(args)]
                    text == JoinArgs(SubSeq(args, 2, Len(args) - 1))
                    existing_ad == get_advertisement(advertisements, ad_id, gf)
                    r == edit_advertisement(advertisements, ad_id, text, url, ef)
                IN  IF existing_ad = None
                    THEN /\ last' = [op |-> "editad", user |-> user, fault |-> gf,
                                     ad_id |-> ad_id, outcome |-> "not_found"]
                         /\ UNCHANGED advertisements
                    ELSE /\ advertisements' = r.ads
                         /\ last' = [op |-> "editad", user |-> user, fault |-> ef,
                                     ad_id |-> ad_id,
                                     outcome |-> IF r.result THEN "edited" ELSE "failure"]
    /\ UNCHANGED <<catalogue, system_messages>>

\* len("/sethelp ")
CommandLength == 9

\* set_help_message_command
SetHelpMessageCommand(user, text) ==
    /\ CanDispatch(running)
    /\ IF ~is_admin(user)
       THEN /\ last' = [op |-> "sethelp", user |-> user, outcome |-> "not_admin"]
            /\ UNCHANGED system_messages
       ELSE LET new_message == SubSeq(text, CommandLength + 1, Len(text))
            IN  IF new_message = <<>>
                THEN /\ last' = [op |-> "sethelp", user |-> user, outcome |-> "usage"]
                     /\ UNCHANGED system_messages
                ELSE \E f \in FaultFlags :
                        LET r == update_help_message(system_messages, new_message, f)
                        IN  /\ system_messages' = r.system_messages
                            /\ last' = [op |-> "sethelp", user |-> user, fault |-> f,
                                        text |-> new_message,
                                        outcome |-> IF r.raised THEN "error"
                                                    ELSE IF r.result THEN "updated"
                                                    ELSE "failure"]
    /\ UNCHANGED <<catalogue, advertisements>>

(***************************************************************************)
(* The start of the program and the help text.                             *)
(***************************************************************************)
\* main: Database(DATABASE_FILE) runs init_db over the database file it
\* finds, and a new MessageHandler starts without context; when init_db
\* raises, main logs and raises and the program ends
InitDb ==
    /\ CanDispatch(running)
    /\ \E f \in FaultFlags :
        LET r == init_db(ebooks, advertisements, system_messages, f)
        IN  /\ ebooks' = r.ebooks
            /\ advertisements' = r.advertisements
            /\ system_messages' = r.system_messages
            /\ last' = [op |-> "init_db", fault |-> f, raised |-> r.raised]
    /\ context' = FALSE
    /\ tasks' = <<>>
    /\ UNCHANGED <<chat, nextMsg, now, running, storage>>

\* /start and /help reply with get_help_message()
HelpCommand ==
    /\ CanDispatch(running)
    /\ \E f \in FaultFlags :
        last' = [op |-> "help", fault |-> f,
                 text |-> get_help_message(system_messages, f)]
    /\ UNCHANGED <<catalogue, advertisements, system_messages>>

Next ==
    \/ \E file_name \in FileNames, chat_id \in ChatIds, file_id \in FileIds :
            HandleDocument(file_name, chat_id, file_id)
    \/ \E i \in DOMAIN running : CheckExisting(i)
    \/ \E i \in DOMAIN running : CheckMessage(i)
    \/ \E i \in DOMAIN running : RemoveStale(i)
    \/ \E i \in DOMAIN running : AddBookCheck(i)
    \/ \E i \in DOMAIN running : AddBookInsert(i)
    \/ \E args \in CommandArgs : SearchCommand(args)
    \/ \E text \in Texts : HandleText(text)
    \/ \E query \in ButtonQueries, page \in PageNumbers(ebooks) :
            HandlePagination(query, page)
    \/ Tick
    \/ \E m \in chat : DeleteMessage(m)

Spec == Init /\ [][Next]_vars

(***************************************************************************)
(* Paging.  The stores a series of fault-free uploads of distinct titles   *)
(* leaves: up to MaxBooks rows, every message still in the chat, and the   *)
(* searches over them.                                                     *)
(***************************************************************************)
TitleLetters == <<"c", "d", "e", "f", "i">>

\* the title of the k-th upload: distinct titles, not in title order, every
\* second one with a_b in it
UploadTitle(k) ==
    LET n == (k * 7) % 25
    IN  (IF k % 2 = 0 THEN <<"a", "_", "b">> ELSE <<"b">>)
        \o <<TitleLetters[(n \div 5) + 1], TitleLetters[(n % 5) + 1]>>

\* the second at which the k-th upload was inserted: all within one second,
\* one a second, two a second, PerPage a second
UploadRates == {0, 1, 2, PerPage}

UploadDate(rate, k) == IF rate = 0 THEN 1 ELSE (k + rate - 1) \div rate

InitPages ==
    \E n \in 0..MaxBooks, rate \in UploadRates :
        /\ ebooks = [k \in 1..n |->
                        [title |-> UploadTitle(k), message_id |-> k,
                         chat_id |-> -1001, file_id |-> "f1",
                         added_date |-> UploadDate(rate, k)]]
        /\ chat = {<<-1001, k>> : k \in 1..n}
        /\ nextMsg = [c \in ChatIds |-> n + 1]
        /\ now = UploadDate(rate, n) + 1
        /\ running = <<>>
        /\ storage = "ok"
        /\ last = [op |-> "init"]
        /\ advertisements = <<>>
        /\ system_messages = init_db(<<>>, <<>>, <<>>, FALSE).system_messages
        /\ context = FALSE
        /\ tasks = <<>>

NextPages ==
    \/ \E args \in CommandArgs : SearchCommand(args)
    \/ \E text \in Texts : HandleText(text)
    \/ \E query \in ButtonQueries, page \in PageNumbers(ebooks) :
            HandlePagination(query, page)

SpecPages == InitPages /\ [][NextPages]_vars

(***************************************************************************)
(* Administration.  The chat has seen MaxUploads - 1 document messages, of *)
(* which the first left a row; the admin commands run beside the upload of *)
(* one more document and the /search command.                              *)
(***************************************************************************)
InitAds ==
    /\ ebooks = InsertBook(<<>>, clean_title(<<"a", "_", "b", ".", "P", "D", "F">>),
                           1, -1001, "f1", 1)
    /\ chat = {<<-1001, 1>>}
    /\ nextMsg = [c \in ChatIds |-> MaxUploads]
    /\ now = 1
    /\ running = <<>>
    /\ storage = "failing"
    /\ last = [op |-> "init"]
    /\ advertisements = <<>>
    /\ system_messages = init_db(<<>>, <<>>, <<>>, FALSE).system_messages
    /\ context = FALSE
    /\ tasks = <<>>

NextAds ==
    \/ \E file_name \in FileNames, chat_id \in ChatIds, file_id \in FileIds :
            HandleDocument(file_name, chat_id, file_id)
    \/ \E i \in DOMAIN running : CheckExisting(i)
    \/ \E i \in DOMAIN running : CheckMessage(i)
    \/ \E i \in DOMAIN running : RemoveStale(i)
    \/ \E i \in DOMAIN running : AddBookCheck(i)
    \/ \E i \in DOMAIN running : AddBookInsert(i)
    \/ \E args \in CommandArgs : SearchCommand(args)
    \/ \E user \in Users, args \in AddArgs : AddAdvertisementCommand(user, args)
    \/ \E user \in Users, args \in RemoveArgs : RemoveAdvertisementCommand(user, args)
    \/ \E user \in Users : ListAdvertisementsCommand(user)
    \/ \E user \in Users, args \in EditArgs : EditAdvertisementCommand(user, args)
    \/ \E user \in Users, text \in HelpTexts : SetHelpMessageCommand(user, text)
    \/ HelpCommand
    \/ InitDb

SpecAds == InitAds /\ [][NextAds]_vars

(***************************************************************************)
(* Serial processing on a storage that raises no fault: uploads, /search  *)
(* and deletions of messages beside the admin commands that add and        *)
(* remove advertisements.  check_message_exists finds the row it is asked  *)
(* about whenever it raises no fault, so the removal of a stale row is a   *)
(* step no handle_document comes to here.                                  *)
(***************************************************************************)
InitSerial ==
    /\ ebooks = <<>>
    /\ chat = {}
    /\ nextMsg = [c \in ChatIds |-> 1]
    /\ now = 1
    /\ running = <<>>
    /\ storage = "ok"
    /\ last = [op |-> "init"]
    /\ advertisements = <<>>
    /\ system_messages = init_db(<<>>, <<>>, <<>>, FALSE).system_messages
    /\ context = FALSE
    /\ tasks = <<>>

NextSerial ==
    \/ \E file_name \in FileNames, chat_id \in ChatIds, file_id \in FileIds :
            HandleDocument(file_name, chat_id, file_id)
    \/ \E i \in DOMAIN running : CheckExisting(i)
    \/ \E i \in DOMAIN running : CheckMessage(i)
    \/ \E i \in DOMAIN running : AddBookCheck(i)
    \/ \E i \in DOMAIN running : AddBookInsert(i)
    \/ \E args \in CommandArgs : SearchCommand(args)
    \/ Tick
    \/ \E m \in chat : DeleteMessage(m)
    \/ \E user \in Users, args \in AddArgs : AddAdvertisementCommand(user, args)
    \/ \E user \in Users, args \in RemoveArgs : RemoveAdvertisementCommand(user, args)

SpecSerial == InitSerial /\ [][NextSerial]_vars

(***************************************************************************)
(* clean_title on its own: the titles put together from up to MaxPieces    *)
(* pieces, and clean_title applied to a title and again to what it gave.   *)
(***************************************************************************)
MaxPieces == 3     \* pieces of a title clean_title is given

TitlePieces ==
    { <<"a">>, <<"B">>, <<"1">>, <<" ">>, <<"\t">>, <<"!">>, <<"-">>, <<"_">>,
      <<".">>, <<".", "p", "d", "f">>, <<".", "P", "D", "F">> }

RECURSIVE TitleInputs(_)
TitleInputs(n) ==
    IF n = 0 THEN {<<>>}
    ELSE LET shorter == TitleInputs(n - 1)
         IN  shorter \cup {t \o piece : t \in shorter, piece \in TitlePieces}

InitTitles ==
    /\ last \in {[op |-> "input", title |-> t] : t \in TitleInputs(MaxPieces)}
    /\ ebooks = <<>>
    /\ chat = {}
    /\ nextMsg = [c \in ChatIds |-> 1]
    /\ now = 1
    /\ running = <<>>
    /\ storage = "ok"
    /\ advertisements = <<>>
    /\ system_messages = init_db(<<>>, <<>>, <<>>, FALSE).system_messages
    /\ context = FALSE
    /\ tasks = <<>>

\* title = clean_title(title)
CleanTitle ==
    /\ last.op \in {"input", "clean_title"}
    /\ last' = [op |-> "clean_title", input |-> last.title,
                title |-> clean_title(last.title)]
    /\ UNCHANGED <<catalogue, advertisements, system_messages>>

NextTitles == CleanTitle

SpecTitles == InitTitles /\ [][NextTitles]_vars

(***************************************************************************)
(* The advertisements under a search reply.  The stores hold up to         *)
(* ActiveLimit + 1 active advertisements, one more than a reply shows,     *)
(* behind up to MaxRemoved removed ones; the storage raises no fault.      *)
(***************************************************************************)
MaxRemoved == 1    \* removed advertisements of the stores searches start from

InitInjection ==
    \E removed \in 0..MaxRemoved, active \in 0..(ActiveLimit + 1) :
        /\ advertisements = [i \in 1..(removed + active) |->
                                [id |-> i, text |-> Str(i), url |-> <<"u">>,
                                 is_active |-> i > removed]]
        /\ ebooks = InsertBook(<<>>, clean_title(<<"a", "_", "b", ".", "P", "D", "F">>),
                               1, -1001, "f1", 1)
        /\ chat = {<<-1001, 1>>}
        /\ nextMsg = [c \in ChatIds |-> 2]
        /\ now = 2
        /\ running = <<>>
        /\ storage = "ok"
        /\ last = [op |-> "init"]
        /\ system_messages = init_db(<<>>, <<>>, <<>>, FALSE).system_messages
        /\ context = FALSE
        /\ tasks = <<>>

NextInjection == \E text \in Texts : HandleText(text)

SpecInjection == InitInjection /\ [][NextInjection]_vars

(***************************************************************************)
(* The status replies and their cleanup.  A reply and the task that is to  *)
(* delete it neither read nor write the tables: the specifications above   *)
(* leave them out, and this one leaves the tables as they are.             *)
(***************************************************************************)
MaxTasks == 2      \* delete_message_later tasks created

\* the message the bot sends next into the chat
Reply(chat_id) == <<chat_id, nextMsg[chat_id]>>

\* asyncio.create_task(self.delete_message_later(chat_id, message_id)): the
\* task is put on the event loop and the handler goes on without waiting
create_task(ts, message) ==
    Append(ts, [message |-> message, pc |-> "created", attempts |-> 0])

\* if not self.context: log and return
ContextAvailable(ctx) == ctx

\* handle_document up to its status reply: it stores the context first, and
\* whichever reply it sends (no file name, unsupported format, duplicate,
\* added, failure) is followed by create_task
DocumentStatusReply(chat_id) ==
    /\ CanDispatch(running)
    /\ Len(tasks) < MaxTasks
    /\ context' = TRUE
    /\ chat' = chat \cup {Reply(chat_id)}
    /\ nextMsg' = [nextMsg EXCEPT ![chat_id] = @ + 1]
    /\ tasks' = create_task(tasks, Reply(chat_id))
    /\ last' = [op |-> "handle_document", outcome |-> "replied"]
    /\ UNCHANGED <<ebooks, now, running, storage, advertisements, system_messages>>

\* handle_text stores the context; none of its replies is cleaned up
TextStoresContext ==
    /\ CanDispatch(running)
    /\ ~context
    /\ context' = TRUE
    /\ last' = [op |-> "handle_text", outcome |-> "context"]
    /\ UNCHANGED <<ebooks, chat, nextMsg, now, running, storage, advertisements,
                   system_messages, tasks>>

\* /search without words: the usage hint is sent and create_task follows;
\* search_command does not store the context
SearchUsageReply(chat_id) ==
    /\ CanDispatch(running)
    /\ Len(tasks) < MaxTasks
    /\ chat' = chat \cup {Reply(chat_id)}
    /\ nextMsg' = [nextMsg EXCEPT ![chat_id] = @ + 1]
    /\ tasks' = create_task(tasks, Reply(chat_id))
    /\ last' = [op |-> "search_command", outcome |-> "usage"]
    /\ UNCHANGED <<ebooks, now, running, storage, advertisements, system_messages,
                   context>>

\* delete_message_later from its start to asyncio.sleep(delay): without a
\* context it logs an error and returns
StartTask(i) ==
    /\ i \in DOMAIN tasks
    /\ tasks[i].pc = "created"
    /\ tasks' = [tasks EXCEPT ![i].pc = IF ContextAvailable(context) THEN "sleeping"
                                        ELSE "returned"]
    /\ last' = [op |-> "delete_message_later", task |-> i, outcome |-> tasks'[i].pc]
    /\ UNCHANGED <<ebooks, chat, nextMsg, now, running, storage, advertisements,
                   system_messages, context>>

\* delete_message_later after the delay: bot.delete_message is called once;
\* it raises when the message is gone, and may raise for other reasons;
\* the exception is logged and nothing else is done
WakeTask(i) ==
    /\ i \in DOMAIN tasks
    /\ tasks[i].pc = "sleeping"
    /\ \E delivered \in BOOLEAN :
        LET deleted == delivered /\ tasks[i].message \in chat
        IN  /\ chat' = IF deleted THEN chat \ {tasks[i].message} ELSE chat
            /\ tasks' = [tasks EXCEPT ![i].pc = IF deleted THEN "deleted" ELSE "failed",
                                      ![i].attempts = @ + 1]
            /\ last' = [op |-> "delete_message_later", task |-> i,
                        outcome |-> tasks'[i].pc]
    /\ UNCHANGED <<ebooks, nextMsg, now, running, storage, advertisements,
                   system_messages, context>>

NextCleanup ==
    \/ \E chat_id \in ChatIds : DocumentStatusReply(chat_id)
    \/ TextStoresContext
    \/ \E chat_id \in ChatIds : SearchUsageReply(chat_id)
    \/ \E i \in 1..MaxTasks : StartTask(i)
    \/ \E i \in 1..MaxTasks : WakeTask(i)
    \/ \E m \in chat : DeleteMessage(m)

\* the event loop runs every task it holds
SpecCleanup ==
    /\ Init
    /\ [][NextCleanup]_vars
    /\ \A i \in 1..MaxTasks : WF_vars(StartTask(i)) /\ WF_vars(WakeTask(i))

(***************************************************************************)
(* The claims.  Storage faults are the subject of a claim of their own;    *)
(* the statements below are about store calls that raise none, in stores   *)
(* that earlier faults may have shaped.                                    *)
(***************************************************************************)
RowsTitled(eb, title) == {i \in DOMAIN eb : eb[i].title = title}

Resolves(chat_id, message_id) == <<chat_id, message_id>> \in chat

\* C1: when the store holds a row with the title, add_book (its lookup
\* raising no fault) returns False, the handler reports the failure and the
\* rows of ebooks are the same after the call as before it.
C1_DuplicateRejection ==
    [][(/\ last'.op = "add_book_check"
        /\ ~last'.fault
        /\ RowsTitled(ebooks, last'.title) # {})
       => (/\ last'.outcome = "failure"
           /\ last'.result = FALSE
           /\ Len(running') < Len(running)
           /\ ebooks' = ebooks)]_vars

\* C1, its case: add_book was called for a title the store holds and
\* returned False.
C1_Witness ==
    /\ last.op = "add_book_check"
    /\ ~last.fault
    /\ last.outcome = "failure"
    /\ last.result = FALSE
    /\ RowsTitled(ebooks, last.title) # {}

\* C2 as claimed: a handler that found an existing row for its title whose
\* message is gone from the chat, and whose store calls raised no fault,
\* ends with success, and then exactly one row has the title and it
\* carries the reference of the new upload.
C2_StaleReclaim ==
    [][(/\ Len(running') < Len(running)
        /\ ~last'.faulted
        /\ running[1].existing # None
        /\ ~Resolves(running[1].existing.chat_id, running[1].existing.message_id))
       => (/\ last'.outcome = "success"
           /\ \E i \in DOMAIN ebooks' :
                /\ RowsTitled(ebooks', running[1].title) = {i}
                /\ ebooks'[i].chat_id = running[1].chat_id
                /\ ebooks'[i].message_id = running[1].message_id)]_vars

\* C3 as claimed: check_message_exists (raising no fault) answers True
\* exactly when the message still exists in the chat.
C3_MessageResolves ==
    [][(last'.op = "check_message_exists" /\ ~last'.fault)
       => (last'.result = Resolves(last'.chat_id, last'.message_id))]_vars

\* the result of search_books when no store call raises
Search(query, page) == search_books(ebooks, query, page, PerPage, FALSE, {}, {})

\* the positions of the page whose message is gone from the chat
StalePositions(results) ==
    {k \in 1..Len(results) : ~Resolves(results[k].chat_id, results[k].message_id)}

\* the rows of the page whose message still exists, as the tuples returned
RECURSIVE LiveTuples(_)
LiveTuples(results) ==
    IF results = <<>> THEN <<>>
    ELSE IF Resolves(results[1].chat_id, results[1].message_id)
         THEN <<BookTuple(results[1])>> \o LiveTuples(Tail(results))
         ELSE LiveTuples(Tail(results))

\* C4 as claimed: of a page with k rows whose message is gone, search_books
\* returns the other rows and the raw count of distinct matching titles
\* less k.
C4_ReconciliationCount ==
    \A query \in ButtonQueries : \A page \in PageNumbers(ebooks) :
        LET selected == SelectPage(ebooks, query, page, PerPage)
        IN  selected.results # <<>> =>
                /\ Search(query, page).books = LiveTuples(selected.results)
                /\ Search(query, page).total_count =
                     selected.total_count - Cardinality(StalePositions(selected.results))

\* C5 as claimed: every entry search_books returns resolves in the chat,
\* and every row of the page that does not has left the store.
C5_SelfHealing ==
    \A query \in ButtonQueries : \A page \in PageNumbers(ebooks) :
        LET selected == SelectPage(ebooks, query, page, PerPage)
            res == Search(query, page)
        IN  /\ \A k \in 1..Len(res.books) :
                 Resolves(res.books[k].chat_id, res.books[k].message_id)
            /\ \A k \in StalePositions(selected.results) :
                 \A i \in DOMAIN res.ebooks :
                    ~RowAt(selected.results[k].chat_id,
                           selected.results[k].message_id, res.ebooks[i])

\* C6 as claimed, in the form a state refutes: a second upload may pass its
\* existence check while a first one is between its own check and its
\* insert, that is, an update can be dispatched while a handle_document
\* stands before its INSERT.
C6_RaceWindow ==
    \A i \in DOMAIN running : running[i].pc = "add_insert" => CanDispatch(running)

\* C6 amended: updates are handled one at a time, so what the existence
\* checks of a handle_document found still holds at its INSERT: a handler
\* whose store calls raised no fault inserts a title no row has.
C6_NoRace ==
    /\ Len(running) <= 1
    /\ \A i \in DOMAIN running :
         (running[i].pc = "add_insert" /\ ~running[i].faulted)
            => RowsTitled(ebooks, running[i].title) = {}

\* C6, its case: a title was uploaded twice, and the second upload met the
\* row of the first and was turned down as a duplicate.
C6_Witness ==
    /\ last.op = "check_message_exists"
    /\ last.outcome = "duplicate"
    /\ ~last.faulted
    /\ Cardinality(RowsTitled(ebooks, last.title)) = 1
    /\ Cardinality(Uploaded) >= 2

\* the greatest added_date among the rows of a title
LatestDate(eb, title) ==
    CHOOSE d \in {eb[i].added_date : i \in RowsTitled(eb, title)} :
        \A i \in RowsTitled(eb, title) : eb[i].added_date <= d

\* the added_date of the row a returned tuple was made from
DatesOf(eb, book) == {eb[i].added_date : i \in {j \in DOMAIN eb : BookTuple(eb[j]) = book}}

\* C7: the list search_books returns holds at most one entry per title,
\* each entry is a matching row that carries the greatest added_date of
\* its title, and the entries are in descending order of added_date.
C7_LatestPerTitle ==
    \A query \in ButtonQueries : \A page \in PageNumbers(ebooks) :
        LET books == Search(query, page).books
        IN  /\ \A k, l \in 1..Len(books) : k # l => books[k].title # books[l].title
            /\ \A k \in 1..Len(books) :
                 \E i \in Matching(ebooks, query) :
                    /\ BookTuple(ebooks[i]) = books[k]
                    /\ ebooks[i].added_date = LatestDate(ebooks, books[k].title)
            /\ \A k, l \in 1..Len(books) :
                 k < l => \A d \in DatesOf(ebooks, books[k]) :
                          \A e \in DatesOf(ebooks, books[l]) : d >= e

\* C7, its case: a search has run on a store in which a title the query
\* matches has rows of two dates, and the search returns entries.
C7_Witness ==
    /\ last.op = "search_books"
    /\ \E query \in ButtonQueries :
        /\ \E i, j \in Matching(ebooks, query) :
             ebooks[i].title = ebooks[j].title
             /\ ebooks[i].added_date < ebooks[j].added_date
        /\ Len(Search(query, 1).books) >= 1

\* C8 as claimed: when the store holds rows of the title, check_book_exists
\* (raising no fault) returns the one inserted last among them.
C8_ReturnsLatest ==
    [][(last'.op \in {"check_book_exists", "add_book_check"} /\ ~last'.fault
        /\ RowsTitled(ebooks, last'.title) # {})
       => \E i \in RowsTitled(ebooks, last'.title) :
            /\ \A j \in RowsTitled(ebooks, last'.title) : j <= i
            /\ BookTuple(ebooks[i]) =
                 (IF last'.op = "check_book_exists" THEN last'.result
                  ELSE last'.existing)]_vars

\* s holds q as a run of consecutive characters, letters compared without case
Contains(s, q) ==
    \E k \in 0..(Len(s) - Len(q)) :
        LowerStr(SubSeq(s, k + 1, k + Len(q))) = LowerStr(q)

\* C9 as claimed: the rows search_books matches are those whose title holds
\* the query as a literal substring, also for queries with _ or %.
C9_LiteralSubstring ==
    \A query \in ButtonQueries :
        Matching(ebooks, query) = {i \in DOMAIN ebooks : Contains(ebooks[i].title, query)}

\* the titles the query matches
MatchingTitles(query) == {ebooks[i].title : i \in Matching(ebooks, query)}

\* ceil(N / PerPage) for the N titles the query matches
LastPage(query) == (Cardinality(MatchingTitles(query)) + PerPage - 1) \div PerPage

\* the lists search_books returns for the pages 1..n, and their counts
RECURSIVE Pages(_, _)
Pages(query, n) ==
    IF n = 0 THEN <<>>
    ELSE Append(Pages(query, n - 1),
                [books |-> Search(query, n).books,
                 total_count |-> Search(query, n).total_count])

\* the titles in a list of results
TitlesOf(books) == {books[k].title : k \in 1..Len(books)}

\* C10: for a query that matches N titles, the pages 1..ceil(N / PerPage)
\* hold pairwise disjoint sets of titles whose union is the N titles, every
\* page but the last holds PerPage entries, the last one the rest, and
\* every page reports N as the total count.
C10_PaginationPartition ==
    \A query \in ButtonQueries :
        LET N == Cardinality(MatchingTitles(query))
            n == LastPage(query)
            pages == Pages(query, n)
        IN  /\ \A p, q \in 1..n :
                 p # q => TitlesOf(pages[p].books) \cap TitlesOf(pages[q].books) = {}
            /\ UNION {TitlesOf(pages[p].books) : p \in 1..n} = MatchingTitles(query)
            /\ \A p \in 1..n :
                 /\ pages[p].total_count = N
                 /\ Len(pages[p].books) =
                      IF p < n THEN PerPage ELSE N - PerPage * (n - 1)
                 /\ Cardinality(TitlesOf(pages[p].books)) = Len(pages[p].books)

\* C10, its case: a search has run over a store in which a query matches
\* 23 titles, which come on three pages of 10, 10 and 3 entries.
C10_Witness ==
    /\ last.op = "search_books"
    /\ \E query \in ButtonQueries :
        /\ Cardinality(MatchingTitles(query)) = 23
        /\ Len(Search(query, 1).books) = 10
        /\ Len(Search(query, 2).books) = 10
        /\ Len(Search(query, 3).books) = 3

\* the buttons of a kind in the pagination row of a keyboard
Controls(reply_markup, kind) ==
    {k \in 1..Len(reply_markup[1]) : reply_markup[1][k].kind = kind}

\* what a payload has to decode to
Target(page, query) == [raised |-> FALSE, page |-> page, search_query |-> query]

\* C11: for a page with entries, format_search_results shows
\* ceil(total_count / 10) as the number of pages, and the keyboard has a
\* previous-page button iff the page is above 1, which encodes the page
\* before and the query, and a next-page button iff the page is below the
\* number of pages, which encodes the page after and the query; for an
\* empty list it returns the no-results message and no keyboard.
C11_NavigationAffordances ==
    \A query \in ButtonQueries : \A page \in PageNumbers(ebooks) :
    \A ads \in get_active_advertisements(advertisements, FALSE) :
        LET r == Search(query, page)
            out == format_search_results(r.books, r.total_count, page, query, ads)
            total_pages == CHOOSE n \in 0..r.total_count :
                              (n - 1) * 10 < r.total_count /\ r.total_count <= n * 10
        IN  IF r.books = <<>>
            THEN out.text = "not_found" /\ out.reply_markup = None
            ELSE LET markup == out.reply_markup
                     previous == Controls(markup, "previous")
                     next == Controls(markup, "next")
                 IN  /\ Cardinality(previous) = (IF page > 1 THEN 1 ELSE 0)
                     /\ \A k \in previous :
                          DecodeCallback(markup[1][k].callback_data) = Target(page - 1, query)
                     /\ Cardinality(next) = (IF page < total_pages THEN 1 ELSE 0)
                     /\ \A k \in next :
                          DecodeCallback(markup[1][k].callback_data) = Target(page + 1, query)
                     /\ \A k \in Controls(markup, "indicator") :
                          /\ markup[1][k].current_page = page
                          /\ markup[1][k].total_pages = total_pages

\* C11, its case: a search has run over a store in which a query has three
\* pages; the second has both buttons, the third no next-page button, and
\* the page after the last gets the no-results message.
C11_Witness ==
    /\ last.op = "search_books"
    /\ \E query \in ButtonQueries :
        /\ Len(Search(query, 3).books) > 0
        /\ LET out(page) == format_search_results(Search(query, page).books,
                                Search(query, page).total_count, page, query, <<>>)
           IN  /\ Controls(out(2).reply_markup, "previous") # {}
               /\ Controls(out(2).reply_markup, "next") # {}
               /\ Controls(out(3).reply_markup, "next") = {}
               /\ Search(query, 4).books = <<>>
               /\ out(4).reply_markup = None

\* the queries put into payloads: those of the searches, the titles of the
\* store, and two made of the delimiter and of digits
PayloadQueries ==
    ButtonQueries \cup {ebooks[i].title : i \in DOMAIN ebooks}
                  \cup { <<"_">>, <<"1", "_", "2">> }

\* C13: for every page number p and every query q, also one with
\* underscores in it, decoding the payload page_<p>_<q> the way
\* handle_pagination does gives back p and q.
C13_PayloadRoundTrip ==
    \A p \in 0..MaxPage : \A q \in PayloadQueries :
        DecodeCallback(CallbackData(p, q)) = Target(p, q)

\* C13, its case: a search for a query with an underscore has run and its
\* first page has a next-page button, whose payload has three underscores.
C13_Witness ==
    /\ last.op = "search_books"
    /\ \E query \in ButtonQueries :
        /\ \E i \in 1..Len(query) : query[i] = "_"
        /\ LET r == Search(query, 1)
               out == format_search_results(r.books, r.total_count, 1, query, <<>>)
           IN  /\ r.books # <<>>
               /\ \E k \in Controls(out.reply_markup, "next") :
                    /\ Len(Split(out.reply_markup[1][k].callback_data, MaxPage)) = 4
                    /\ DecodeCallback(out.reply_markup[1][k].callback_data) = Target(2, query)

ExpectedTitle(file_name) ==
    CASE file_name = <<"a", "_", "b", ".", "P", "D", "F">> -> <<"a", "_", "b">>
      [] file_name = <<"a", "!", "b", ".", "e", "p", "u", "b">> -> <<"a", " ", "b">>

\* the queries for which a store holds no title but X that matches, be it
\* as a substring or by the LIKE pattern, and X does
OnlyMatch(eb, X) ==
    {q \in ButtonQueries :
        /\ Contains(X, q)
        /\ \A i \in DOMAIN eb :
             eb[i].title # X => ~Contains(eb[i].title, q) /\ i \notin Matching(eb, q)}

\* C14: when handle_document, none of its store calls raising, ends on a
\* supported file, then if the store held no row of its normalized title
\* it reports success and has added one row with that title and the
\* chat_id and message_id of the upload; if the store held one (the same
\* file uploaded before) it reports a duplicate that refers to the chat_id
\* and message_id of that row and adds no row; and afterwards a page-1
\* search for a substring of the title that no other title matches returns
\* that one entry and the total count 1.
C14_EndToEnd ==
    [][(Len(running') < Len(running) /\ ~last'.faulted)
       => LET up == running[1]
              X == ExpectedTitle(up.file_name)
              rows == RowsTitled(ebooks, X)
          IN  /\ up.title = X
              /\ rows = {} =>
                   /\ last'.outcome = "success"
                   /\ Len(ebooks') = Len(ebooks) + 1
                   /\ SubSeq(ebooks', 1, Len(ebooks)) = ebooks
                   /\ BookTuple(ebooks'[Len(ebooks')]) =
                        [title |-> X, message_id |-> up.message_id,
                         chat_id |-> up.chat_id, file_id |-> up.file_id]
              /\ Cardinality(rows) = 1 =>
                   /\ last'.outcome = "duplicate"
                   /\ ebooks' = ebooks
                   /\ \A i \in rows :
                        /\ last'.existing.chat_id = ebooks[i].chat_id
                        /\ last'.existing.message_id = ebooks[i].message_id
              /\ Cardinality(rows) <= 1 =>
                   \A q \in OnlyMatch(ebooks', X) :
                        LET found == search_books(ebooks', q, 1, PerPage, FALSE, {}, {})
                        IN  /\ found.total_count = 1
                            /\ Len(found.books) = 1
                            /\ found.books[1].title = X]_vars

\* C14, its case: a file has been uploaded a second time and turned down as
\* a duplicate of the first upload, no store call raising, and there is a
\* query that only its title matches.
C14_Witness ==
    /\ last.op = "check_message_exists"
    /\ last.outcome = "duplicate"
    /\ ~last.faulted
    /\ Cardinality(RowsTitled(ebooks, last.title)) = 1
    /\ Len(ebooks) >= 2
    /\ OnlyMatch(ebooks, last.title) # {}

\* the rows of advertisements with the id
AdsWithId(ads, ad_id) == {i \in DOMAIN ads : ads[i].id = ad_id}

\* C15 as claimed: remove_advertisement (raising no fault) returns True
\* exactly when the id names an advertisement that is active at the call;
\* it returns False for an id no advertisement has and for one that is
\* already inactive.
C15_RemoveResult ==
    [][(last'.op = "removead" /\ last'.outcome \in {"removed", "not_found"}
        /\ ~last'.fault)
       => (last'.result =
             \E i \in AdsWithId(advertisements, last'.ad_id) :
                advertisements[i].is_active)]_vars

\* the texts and urls an edit may carry
AdWords == { <<"t">>, <<"u">>, <<"v">>, <<"w">> }

\* C16: an advertisement that has been removed (every inactive one has)
\* is not returned by get_advertisement, is in no list that
\* list_advertisements or get_active_advertisements returns, and
\* edit_advertisement on its id returns False and leaves the table as it
\* is; and a removal that reports success leaves the advertisement inactive.
C16_AfterDeactivation ==
    /\ \A i \in DOMAIN advertisements :
        ~advertisements[i].is_active =>
            LET ad == advertisements[i]
                listed == list_advertisements(advertisements, FALSE)
                active == {j \in DOMAIN advertisements : advertisements[j].is_active}
            IN  /\ get_advertisement(advertisements, ad.id, FALSE) = None
                /\ \A k \in 1..Len(listed) : listed[k][1] # ad.id
                /\ \A shown \in get_active_advertisements(advertisements, FALSE) :
                     /\ Len(shown) <= Cardinality(active)
                     /\ \A k \in 1..Len(shown) :
                          \E j \in active : shown[k] = <<advertisements[j].text,
                                                         advertisements[j].url>>
                /\ \A text \in AdWords, url \in AdWords :
                     edit_advertisement(advertisements, ad.id, text, url, FALSE)
                        = [ads |-> advertisements, result |-> FALSE]
    /\ (last.op = "removead" /\ last.outcome = "removed" /\ ~last.fault)
        => \A i \in AdsWithId(advertisements, last.ad_id) :
              ~advertisements[i].is_active

\* C16, its case: an advertisement was removed and an admin then tried to
\* edit it, which found no advertisement of that id.
C16_Witness ==
    /\ last.op = "editad"
    /\ last.outcome = "not_found"
    /\ ~last.fault
    /\ \E i \in AdsWithId(advertisements, last.ad_id) : ~advertisements[i].is_active

\* C17: no step removes an advertisement row or changes its id, so the set
\* of ids only grows, and a removal changes nothing but the active flag of
\* the row with the id given: text and url are kept.
C17_SoftDeleteOnly ==
    [][/\ Len(advertisements') >= Len(advertisements)
       /\ \A i \in DOMAIN advertisements :
            advertisements'[i].id = advertisements[i].id
       /\ last'.op = "removead" =>
            /\ Len(advertisements') = Len(advertisements)
            /\ \A i \in DOMAIN advertisements :
                 /\ advertisements'[i].text = advertisements[i].text
                 /\ advertisements'[i].url = advertisements[i].url
                 /\ (advertisements'[i].is_active # advertisements[i].is_active)
                      => /\ advertisements[i].id = last'.ad_id
                         /\ ~advertisements'[i].is_active]_vars

\* C17, its case: an admin has removed an advertisement, and its row is
\* still in the table, inactive, beside another row.
C17_Witness ==
    /\ last.op = "removead"
    /\ last.outcome = "removed"
    /\ Len(advertisements) >= 2
    /\ \E i \in AdsWithId(advertisements, last.ad_id) : ~advertisements[i].is_active

\* C18 as claimed: for every deactivated advertisement there is an edit on
\* its id after which it is active again, be it a call of
\* edit_advertisement or an /editad command of an admin.
C18_ReactivationByEdit ==
    \A i \in DOMAIN advertisements :
        ~advertisements[i].is_active =>
            \/ \E text \in AdWords, url \in AdWords :
                 edit_advertisement(advertisements, advertisements[i].id,
                                    text, url, FALSE).ads[i].is_active
            \/ ENABLED (\E user \in Users, args \in EditArgs :
                          /\ EditAdvertisementCommand(user, args)
                          /\ advertisements'[i].is_active)

\* C18 amended: a deactivated advertisement keeps its row and id but is
\* never active again: edit_advertisement on its id returns False and
\* leaves it inactive, and no step of any command switches it back on.
C18_NoReactivation ==
    [][\A i \in DOMAIN advertisements :
         ~advertisements[i].is_active =>
            /\ \A text \in AdWords, url \in AdWords :
                 LET r == edit_advertisement(advertisements, advertisements[i].id,
                                             text, url, FALSE)
                 IN  ~r.result /\ ~r.ads[i].is_active
            /\ i \in DOMAIN advertisements'
            /\ advertisements'[i].id = advertisements[i].id
            /\ ~advertisements'[i].is_active]_vars

\* C18, its case: an admin has sent /editad for a deactivated advertisement
\* and it is still inactive.
C18_Witness ==
    /\ last.op = "editad"
    /\ last.user \in ADMIN_IDS
    /\ last.outcome \in {"not_found", "edited", "failure"}
    /\ \E i \in AdsWithId(advertisements, last.ad_id) :
         /\ ~advertisements[i].is_active
         /\ advertisements[i].text = <<"t">>

AdminOps == {"addad", "editad", "removead", "listad", "sethelp"}

\* C19: a step of addad, editad, removead, listad or sethelp by a user who
\* is not in the admin list is turned down and leaves the advertisements
\* and the help message as they are; the advertisements and the help
\* message change only in steps of these commands taken by an admin.
C19_AdminGating ==
    [][/\ (last'.op \in AdminOps /\ last'.user \notin ADMIN_IDS)
            => /\ last'.outcome = "not_admin"
               /\ advertisements' = advertisements
               /\ system_messages' = system_messages
       /\ (advertisements' # advertisements \/ system_messages' # system_messages)
            => (last'.op \in AdminOps /\ last'.user \in ADMIN_IDS)]_vars

\* C19, its case: there are advertisements, and a user who is not an admin
\* has sent /removead and was turned down.
C19_Witness ==
    /\ last.op = "removead"
    /\ last.user \notin ADMIN_IDS
    /\ last.outcome = "not_admin"
    /\ \E i \in DOMAIN advertisements : advertisements[i].is_active

\* a file name that ends in one of the extensions taken, whatever the case
HasEbookExtension(file_name) ==
    \E ext \in { <<".", "p", "d", "f">>, <<".", "e", "p", "u", "b">>,
                 <<".", "m", "o", "b", "i">>, <<".", "t", "x", "t">> } :
        EndsWith(LowerStr(file_name), ext)

\* a string int() does not take: empty, or with a character that is no digit
NotAnInteger(word) == word = <<>> \/ \E k \in 1..Len(word) : ~IsDigit(word[k])

\* the step is a handler run on an input that fails validation
ValidationError ==
    \/ /\ last'.op = "handle_document"
       /\ \E file_name \in FileNames, chat_id \in ChatIds, file_id \in FileIds :
            /\ file_name = <<>> \/ ~HasEbookExtension(file_name)
            /\ HandleDocument(file_name, chat_id, file_id)
    \/ /\ last'.op = "addad"
       /\ \E user \in ADMIN_IDS, args \in AddArgs :
            Len(args) < 2 /\ AddAdvertisementCommand(user, args)
    \/ /\ last'.op = "editad"
       /\ \E user \in ADMIN_IDS, args \in EditArgs :
            /\ Len(args) < 3 \/ NotAnInteger(args[1])
            /\ EditAdvertisementCommand(user, args)
    \/ /\ last'.op = "removead"
       /\ \E user \in ADMIN_IDS, args \in RemoveArgs :
            /\ args = <<>> \/ NotAnInteger(args[1])
            /\ RemoveAdvertisementCommand(user, args)
    \/ /\ last'.op = "sethelp"
       /\ \E user \in ADMIN_IDS, text \in HelpTexts :
            /\ Len(text) <= 9
            /\ SetHelpMessageCommand(user, text)
    \/ /\ last'.op = "search_command"
       /\ \E args \in CommandArgs : args = <<>> /\ SearchCommand(args)

\* C20: an upload without file name or with an extension other than pdf,
\* epub, mobi, txt, addad with fewer than 2 arguments, editad with fewer
\* than 3 arguments or an id that is no integer, removead without argument
\* or with an id that is no integer, sethelp without text and search
\* without query each end with a message to the user and leave ebooks, the
\* advertisements and the help message as they are.
C20_ValidationNoChange ==
    [][ValidationError
       => /\ last'.outcome \in {"no_file_name", "unsupported", "usage", "invalid_id"}
          /\ ebooks' = ebooks
          /\ advertisements' = advertisements
          /\ system_messages' = system_messages
          /\ running' = running]_vars

\* C20, its case: with a row in ebooks and an advertisement stored, an
\* admin has sent /editad with an id that is no integer.
C20_Witness ==
    /\ last.op = "editad"
    /\ last.outcome = "invalid_id"
    /\ ebooks # <<>>
    /\ advertisements # <<>>

\* C21 as claimed: a store operation in which the storage layer raises does
\* not raise to its caller (init_db included), returns its safe default
\* (None, False, the empty list, the built-in help text) and leaves the
\* tables as they are.
C21_FaultsNeverPropagate ==
    [][("fault" \in DOMAIN last' /\ last'.fault) =>
          /\ ebooks' = ebooks
          /\ advertisements' = advertisements
          /\ system_messages' = system_messages
          /\ last'.op = "check_book_exists" => last'.result = None
          /\ last'.op = "help" => last'.text = HELP_MESSAGE
          /\ last'.op = "listad" => last'.ads = <<>>
          /\ last'.op = "addad" => last'.outcome = "failure"
          /\ last'.op = "removead" => ~last'.result
          /\ last'.op = "init_db" => ~last'.raised]_vars

\* C22 as claimed: whichever events were handled before, every cleanup task
\* a handler creates leads to a deletion of its reply being attempted once,
\* and never more than once.
C22_CleanupAttemptedOnce ==
    /\ \A i \in 1..MaxTasks :
          (Len(tasks) >= i) ~> (Len(tasks) >= i /\ tasks[i].attempts = 1)
    /\ [](\A i \in DOMAIN tasks : tasks[i].attempts <= 1)

\* a text with every @:name turned into @name
RECURSIVE MentionNormalized(_)
MentionNormalized(text) ==
    IF text = <<>> THEN <<>>
    ELSE IF Len(text) >= 3 /\ text[1] = "@" /\ text[2] = ":" /\ IsWordChar(text[3])
    THEN <<"@">> \o MentionNormalized(SubSeq(text, 3, Len(text)))
    ELSE <<text[1]>> \o MentionNormalized(Tail(text))

\* C23 as claimed, with the example the claim is drawn from: /help answers
\* with the built-in text while the help row is the one init_db wrote, and
\* an admin's /sethelp t whose store call raises no storage fault succeeds,
\* after which get_help_message returns t with every @:name turned into
\* @name.
C23_HelpSetGet ==
    [][/\ (last'.op = "help" /\ ~last'.fault
            /\ system_messages = init_db(<<>>, <<>>, <<>>, FALSE).system_messages)
          => last'.text = HELP_MESSAGE
       /\ (last'.op = "sethelp" /\ last'.outcome \notin {"not_admin", "usage"}
            /\ ~last'.fault)
          => /\ last'.outcome = "updated"
             /\ get_help_message(system_messages', FALSE)
                   = MentionNormalized(last'.text)]_vars

\* C24: the list of advertisements a search fetches for its reply, the
\* storage raising no fault, has min(5, number of active advertisements)
\* entries, no two of them the same advertisement, each of them an active
\* advertisement and none an inactive one.
C24_AdvertisementInjection ==
    (last.op = "search_books" /\ storage = "ok") =>
        LET shown == last.advertisements
            active == {i \in DOMAIN advertisements : advertisements[i].is_active}
            Shows(k, i) == shown[k] = <<advertisements[i].text, advertisements[i].url>>
        IN  /\ Len(shown) = Min(5, Cardinality(active))
            /\ \A k, l \in 1..Len(shown) : k # l => shown[k] # shown[l]
            /\ \A k \in 1..Len(shown) :
                 /\ \E i \in active : Shows(k, i)
                 /\ \A i \in DOMAIN advertisements \ active : ~Shows(k, i)

\* C24, its case: a search has fetched 5 advertisements from a store with
\* more than 5 active ones and a removed one.
C24_Witness ==
    /\ last.op = "search_books"
    /\ storage = "ok"
    /\ Cardinality({i \in DOMAIN advertisements : advertisements[i].is_active}) > 5
    /\ \E i \in DOMAIN advertisements : ~advertisements[i].is_active
    /\ Len(last.advertisements) = 5

\* C25: what clean_title returns is left as it is by clean_title, and it
\* holds letters, digits, underscores, hyphens and single spaces between
\* them only, none at its start or end.
C25_NormalizerIdempotence ==
    last.op = "clean_title" =>
        LET title == last.title
        IN  /\ clean_title(title) = title
            /\ \A i \in 1..Len(title) :
                 \/ title[i] \in {"a", "B", "1", "p", "d", "f", "P", "D", "F", "_", "-"}
                 \/ /\ title[i] = " "
                    /\ 1 < i /\ i < Len(title)
                    /\ title[i - 1] # " "

\* C25, its case: clean_title was applied to a B, which is what it makes
\* of a!B, and returned it as it was.
C25_Witness ==
    /\ last.op = "clean_title"
    /\ last.input = <<"a", " ", "B">>
    /\ last.title = <<"a", " ", "B">>

HelpRows(rows) == {i \in DOMAIN rows : rows[i].type = "help"}

\* C26: table system_messages holds at most one row of type help, after
\* init_db, after init_db over the database of an earlier run and after
\* any /sethelp; and the statement both of them write the row with leaves
\* one such row whatever the text.
C26_HelpSingleton ==
    /\ Cardinality(HelpRows(system_messages)) <= 1
    /\ \A text \in HelpTexts :
          Cardinality(HelpRows(InsertOrReplace(system_messages, "help", text))) = 1

\* C26, its case: init_db has run again, over a database that held a help
\* row already, and the table holds one help row.
C26_Witness ==
    /\ last.op = "init_db"
    /\ ~last.raised
    /\ Cardinality(HelpRows(system_messages)) = 1
    /\ advertisements = <<>>

C28_EmptyPageReportsZero ==
    \A query \in ButtonQueries : \A page \in PageNumbers(ebooks) :
        Cardinality(MatchingTitles(query)) <= (page - 1) * 10 =>
            LET r == Search(query, page)
            IN  /\ r.books = <<>>
                /\ r.total_count = 0
                /\ r.ebooks = ebooks
                /\ \A ads \in get_active_advertisements(advertisements, FALSE) :
                     format_search_results(r.books, r.total_count, page, query, ads)
                        = [text |-> "not_found", reply_markup |-> None]

\* C28, its case: a search has run over a store in which a query fills two
\* pages and more, and the page behind its last page is asked for.
C28_Witness ==
    /\ last.op = "search_books"
    /\ \E query \in ButtonQueries : \E page \in PageNumbers(ebooks) :
         /\ Cardinality(MatchingTitles(query)) > 10
         /\ Cardinality(MatchingTitles(query)) <= (page - 1) * 10
         /\ Search(query, page).books = <<>>

\* C29: every run of init_db that does not raise, over the database of an
\* earlier run, leaves the built-in text as the help content and the rows
\* of ebooks and advertisements as they were; and so it does over a
\* database whose help row holds any other text.
C29_ReinitResetsHelp ==
    [][/\ (last'.op = "init_db" /\ ~last'.raised)
          => /\ get_help_message(system_messages', FALSE) = HELP_MESSAGE
             /\ ebooks' = ebooks
             /\ advertisements' = advertisements
       /\ \A text \in HelpTexts :
            LET set == InsertOrReplace(system_messages, "help", text)
                r == init_db(ebooks, advertisements, set, FALSE)
            IN  /\ get_help_message(set, FALSE) = text
                /\ get_help_message(r.system_messages, FALSE) = HELP_MESSAGE
                /\ r.ebooks = ebooks
                /\ r.advertisements = advertisements]_vars

\* C29, its case: the program was started again over a database with a row
\* in ebooks and an advertisement, and init_db went through.
C29_Witness ==
    /\ last.op = "init_db"
    /\ ~last.raised
    /\ ebooks # <<>>
    /\ advertisements # <<>>
    /\ get_help_message(system_messages, FALSE) = HELP_MESSAGE

====
